---- MODULE Spec2Model ----
(***************************************************************************)
(* Model of LogicTablePY.py: the propositional-logic front end             *)
(* (tokenize, Parser, split_premises, collect_subexpressions, the AST      *)
(* methods evaluate / vars / __str__, and truth_table_multiple).           *)
(*                                                                         *)
(* Python strings are sequences of one-character strings, so that          *)
(* indexing, slicing, startswith and strip are computed as the code        *)
(* computes them.  Indices i, start, pos keep Python's 0-based values;     *)
(* s[i] is written s[i + 1] and s[a:b] is SubSeq(s, a + 1, b).             *)
(***************************************************************************)
EXTENDS Integers, Sequences, FiniteSets, TLC

VARIABLES pc, statement, split, tokens, parser, expr, collected, exprs, table

vars == <<pc, statement, split, tokens, parser, expr, collected, exprs, table>>

(***************************************************************************)
(* Characters and strings                                                  *)
(***************************************************************************)

\* Python's None (Parser.peek at end of input): no token is the empty string.
None == <<>>

Lower == {"a", "b", "c", "d", "e", "f", "g", "h", "i", "j", "k", "l", "m",
          "n", "o", "p", "q", "r", "s", "t", "u", "v", "w", "x", "y", "z"}

Upper == {"A", "B", "C", "D", "E", "F", "G", "H", "I", "J", "K", "L", "M",
          "N", "O", "P", "Q", "R", "S", "T", "U", "V", "W", "X", "Y", "Z"}

Digits == {"0", "1", "2", "3", "4", "5", "6", "7", "8", "9"}

\* The regex class [A-Za-z]
IsAlpha(c) == c \in Lower \cup Upper

\* The regex class [A-Za-z0-9_]
IsWord(c) == c \in Lower \cup Upper \cup Digits \cup {"_"}

\* \s of the regex and the characters str.strip() removes
IsSpace(c) == c \in {" ", "\t", "\n", "\r"}

\* s[a:b] for 0 <= a, clipped as Python clips a slice
Slice(s, a, b) == SubSeq(s, a + 1, IF b > Len(s) THEN Len(s) ELSE b)

\* s.startswith(prefix, i)
startswith(s, prefix, i) ==
    /\ i + Len(prefix) <= Len(s)
    /\ SubSeq(s, i + 1, i + Len(prefix)) = prefix

RECURSIVE lstrip(_)
lstrip(s) ==
    IF s # <<>> /\ IsSpace(Head(s)) THEN lstrip(Tail(s)) ELSE s

RECURSIVE rstrip(_)
rstrip(s) ==
    IF s # <<>> /\ IsSpace(s[Len(s)]) THEN rstrip(SubSeq(s, 1, Len(s) - 1)) ELSE s

\* str.strip()
strip(s) == rstrip(lstrip(s))

(***************************************************************************)
(* split_premises                                                          *)
(***************************************************************************)

THEREFORE == <<"t", "h", "e", "r", "e", "f", "o", "r", "e">>

TURNSTILE == <<"|", "-">>

\* The two shapes split_premises returns: (parts, conclusion) or parts.
ReturnTuple(parts, conclusion) ==
    [tuple |-> TRUE, parts |-> parts, conclusion |-> conclusion]

ReturnList(parts) ==
    [tuple |-> FALSE, parts |-> parts, conclusion |-> None]

\* A splitter that does not track parentheses
DepthAfter_Untracked(char, depth) == depth

\* depth after the '(' / ')' update at the top of the loop body
DepthAfter(char, depth) ==
    IF char = "(" THEN depth + 1
    ELSE IF char = ")" THEN depth - 1
    ELSE depth

\* The separator branch at depth zero for 'therefore' and '|-'
SplitAtSeparator(s, i, start, parts, sep) ==
    ReturnTuple(Append(parts, strip(Slice(s, start, i))),
                strip(Slice(s, i + Len(sep), Len(s))))

\* The code after the loop: the tail is appended only when non-empty
SplitTail(s, start, parts) ==
    LET tail == strip(Slice(s, start, Len(s)))
    IN  IF tail # <<>> THEN ReturnList(Append(parts, tail)) ELSE ReturnList(parts)

\* The while loop of split_premises, one iteration per call
RECURSIVE split_loop(_, _, _, _, _)
split_loop(s, i, depth0, start, parts) ==
    IF i >= Len(s) THEN SplitTail(s, start, parts)
    ELSE
      LET char  == s[i + 1]
          depth == DepthAfter(char, depth0)
      IN  IF depth = 0 /\ startswith(s, THEREFORE, i)
            THEN SplitAtSeparator(s, i, start, parts, THEREFORE)
          ELSE IF depth = 0 /\ startswith(s, TURNSTILE, i)
            THEN SplitAtSeparator(s, i, start, parts, TURNSTILE)
          ELSE IF depth = 0 /\ char = ","
            THEN split_loop(s, i + 1, depth, i + 1,
                            Append(parts, strip(Slice(s, start, i))))
          ELSE split_loop(s, i + 1, depth, start, parts)

split_premises(s) == split_loop(s, 0, 0, 0, <<>>)

(***************************************************************************)
(* tokenize: re.findall(TOKEN_REGEX, s)                                    *)
(***************************************************************************)

\* The literal alternatives of the capture group, in the regex's order:
\* ~ | & | \| | -> | <-> | \( | \)
Literals ==
    << <<"~">>, <<"&">>, <<"|">>, <<"-", ">">>, <<"<", "-", ">">>,
       <<"(">>, <<")">> >>

\* Greedy \s* from index i: the index after the run of whitespace
RECURSIVE SkipSpaces(_, _)
SkipSpaces(s, i) ==
    IF i < Len(s) /\ IsSpace(s[i + 1]) THEN SkipSpaces(s, i + 1) ELSE i

\* Greedy [A-Za-z0-9_]* from index i: the index after the run
RECURSIVE WordEnd(_, _)
WordEnd(s, i) ==
    IF i < Len(s) /\ IsWord(s[i + 1]) THEN WordEnd(s, i + 1) ELSE i

\* An identifier pattern without the repetition: [A-Za-z]
IdentEnd_OneChar(s, j) ==
    IF j < Len(s) /\ IsAlpha(s[j + 1]) THEN j + 1 ELSE -1

\* The last alternative, [A-Za-z][A-Za-z0-9_]*, at index j: its end, or -1
IdentEnd(s, j) ==
    IF j < Len(s) /\ IsAlpha(s[j + 1]) THEN WordEnd(s, j + 1) ELSE -1

\* The capture group at index j: alternatives are tried in order and the
\* first that matches is taken.  The end index of the group, or -1.
MatchGroup(s, j) ==
    LET hits == {k \in 1..Len(Literals) : startswith(s, Literals[k], j)}
    IN  IF hits # {}
          THEN LET k == CHOOSE x \in hits : \A y \in hits : x <= y
               IN  j + Len(Literals[k])
          ELSE IdentEnd(s, j)

\* The whole pattern at index i with the leading \s* having taken k
\* characters; on failure the engine backtracks to k - 1.  The trailing \s*
\* is greedy and cannot fail, so the first group match is final.
RECURSIVE MatchBacktrack(_, _, _)
MatchBacktrack(s, i, k) ==
    LET j == i + k
        e == MatchGroup(s, j)
    IN  IF e # -1
          THEN [found |-> TRUE, group |-> Slice(s, j, e), end |-> SkipSpaces(s, e)]
        ELSE IF k > 0 THEN MatchBacktrack(s, i, k - 1)
        ELSE [found |-> FALSE, group |-> None, end |-> i]

MatchAt(s, i) == MatchBacktrack(s, i, SkipSpaces(s, i) - i)

\* re.findall: non-overlapping matches left to right; where the pattern
\* does not match, the search moves on by one character.
RECURSIVE findall(_, _)
findall(s, i) ==
    IF i >= Len(s) THEN <<>>
    ELSE LET m == MatchAt(s, i)
         IN  IF m.found THEN <<m.group>> \o findall(s, m.end)
             ELSE findall(s, i + 1)

tokenize(s) == findall(s, 0)

(***************************************************************************)
(* AST nodes.  The parser builds objects; an object is a slot of a heap    *)
(* (a sequence of nodes) and its identity is its index.  A child is held   *)
(* by identity.  Tree(heap, id) is the value the object graph unfolds to,  *)
(* on which evaluate, vars and __str__ are defined.                        *)
(***************************************************************************)

Var(name) == [op |-> "Var", name |-> name]

Not(operand) == [op |-> "Not", operand |-> operand]

\* And, Or, Implies, Iff: the BinOp subclasses, cls the class name
BinOp(cls, left, right) == [op |-> cls, left |-> left, right |-> right]

BinOpClasses == {"And", "Or", "Implies", "Iff"}

RECURSIVE Tree(_, _)
Tree(heap, id) ==
    LET n == heap[id]
    IN  IF n.op = "Var" THEN n
        ELSE IF n.op = "Not" THEN Not(Tree(heap, n.operand))
        ELSE BinOp(n.op, Tree(heap, n.left), Tree(heap, n.right))

\* The operator text of each BinOp subclass's __str__
OpText(cls) ==
    CASE cls = "And"     -> <<"&">>
      [] cls = "Or"      -> <<"|">>
      [] cls = "Implies" -> <<"-", ">">>
      [] cls = "Iff"     -> <<"<", "-", ">">>

\* A rendering that leaves out the parentheses of binary nodes
RECURSIVE str_NoParens(_)
str_NoParens(e) ==
    IF e.op = "Var" THEN e.name
    ELSE IF e.op = "Not" THEN <<"~">> \o str_NoParens(e.operand)
    ELSE str_NoParens(e.left) \o <<" ">> \o OpText(e.op) \o <<" ">>
               \o str_NoParens(e.right)

\* __str__: name, f"~{operand}", f"({left} <op> {right})"
RECURSIVE str(_)
str(e) ==
    IF e.op = "Var" THEN e.name
    ELSE IF e.op = "Not" THEN <<"~">> \o str(e.operand)
    ELSE <<"(">> \o str(e.left) \o <<" ">> \o OpText(e.op) \o <<" ">>
               \o str(e.right) \o <<")">>

\* vars(): the set of variable names
RECURSIVE exprvars(_)
exprvars(e) ==
    IF e.op = "Var" THEN {e.name}
    ELSE IF e.op = "Not" THEN exprvars(e.operand)
    ELSE exprvars(e.left) \cup exprvars(e.right)

\* An evaluator whose Implies is 'left or not right'
RECURSIVE evaluate_ConverseImplies(_, _)
evaluate_ConverseImplies(e, context) ==
    CASE e.op = "Var"     -> context[e.name]
      [] e.op = "Not"     -> ~ evaluate_ConverseImplies(e.operand, context)
      [] e.op = "And"     -> IF evaluate_ConverseImplies(e.left, context)
                               THEN evaluate_ConverseImplies(e.right, context) ELSE FALSE
      [] e.op = "Or"      -> IF evaluate_ConverseImplies(e.left, context)
                               THEN TRUE ELSE evaluate_ConverseImplies(e.right, context)
      [] e.op = "Implies" -> IF evaluate_ConverseImplies(e.left, context)
                               THEN TRUE ELSE ~ evaluate_ConverseImplies(e.right, context)
      [] e.op = "Iff"     -> evaluate_ConverseImplies(e.left, context)
                               = evaluate_ConverseImplies(e.right, context)

\* evaluate(context); 'and' / 'or' on booleans, evaluated left to right
RECURSIVE evaluate(_, _)
evaluate(e, context) ==
    CASE e.op = "Var"     -> context[e.name]
      [] e.op = "Not"     -> ~ evaluate(e.operand, context)
      [] e.op = "And"     -> IF evaluate(e.left, context)
                               THEN evaluate(e.right, context) ELSE FALSE
      [] e.op = "Or"      -> IF evaluate(e.left, context)
                               THEN TRUE ELSE evaluate(e.right, context)
      [] e.op = "Implies" -> IF ~ evaluate(e.left, context)
                               THEN TRUE ELSE evaluate(e.right, context)
      [] e.op = "Iff"     -> evaluate(e.left, context) = evaluate(e.right, context)

(***************************************************************************)
(* Parser.  A parser state is [pos, heap, err, node]: the position, the    *)
(* objects built so far, whether ValueError was raised, and the object     *)
(* the last method returned.                                               *)
(***************************************************************************)

TILDE == <<"~">>
AMP == <<"&">>
BAR == <<"|">>
ARROW == <<"-", ">">>
DARROW == <<"<", "-", ">">>
LPAREN == <<"(">>
RPAREN == <<")">>

\* Parser.__init__
NewParser == [pos |-> 0, heap |-> <<>>, err |-> FALSE, node |-> 0]

\* Parser.peek
peek(toks, st) == IF st.pos < Len(toks) THEN toks[st.pos + 1] ELSE None

\* Parser.consume: the position advances even at the end of input
consume(st) == [st EXCEPT !.pos = @ + 1]

\* A constructor call: the new object gets the next identity
New(st, n) ==
    [st EXCEPT !.heap = Append(@, n), !.node = Len(st.heap) + 1]

\* left = Cls(left, right) in the loops of the binary levels
MkBin(cls, left, st) == New(st, BinOp(cls, left, st.node))

\* raise ValueError("Expected closing parenthesis")
Raise(st) == [st EXCEPT !.err = TRUE, !.node = 0]

\* A parse_atom that consumes whatever follows the enclosed expression
ClosingMissing_Unchecked(toks, st) == FALSE

\* The test before the raise in parse_atom: self.peek() != ")"
ClosingMissing(toks, st) == peek(toks, st) # RPAREN

RECURSIVE parse_iff(_, _), parse_implies(_, _), parse_or(_, _)
RECURSIVE parse_and(_, _), parse_not(_, _), parse_atom(_, _)
RECURSIVE iff_loop(_, _), implies_loop(_, _), or_loop(_, _), and_loop(_, _)

\* Parser.parse
parse(toks, st) == parse_iff(toks, st)

parse_atom(toks, st) ==
    LET tok == peek(toks, st)
    IN  IF tok = LPAREN
          THEN LET e == parse(toks, consume(st))
               IN  IF e.err THEN e
                   ELSE IF ClosingMissing(toks, e) THEN Raise(e)
                   ELSE consume(e)
          ELSE New(consume(st), Var(tok))

parse_not(toks, st) ==
    IF peek(toks, st) = TILDE
      THEN LET operand == parse_not(toks, consume(st))
           IN  IF operand.err THEN operand
               ELSE New(operand, Not(operand.node))
      ELSE parse_atom(toks, st)

\* while self.peek() == "&": one iteration per call, left the state after
\* the left operand
and_loop(toks, left) ==
    IF left.err \/ peek(toks, left) # AMP THEN left
    ELSE LET right == parse_not(toks, consume(left))
         IN  IF right.err THEN right
             ELSE and_loop(toks, MkBin("And", left.node, right))

parse_and(toks, st) == and_loop(toks, parse_not(toks, st))

or_loop(toks, left) ==
    IF left.err \/ peek(toks, left) # BAR THEN left
    ELSE LET right == parse_and(toks, consume(left))
         IN  IF right.err THEN right
             ELSE or_loop(toks, MkBin("Or", left.node, right))

\* An 'or' level that reads its operands from the 'not' level, so that
\* '&' no longer binds tighter than '|'
parse_or_SkipsAnd(toks, st) == or_loop(toks, parse_not(toks, st))

parse_or(toks, st) == or_loop(toks, parse_and(toks, st))

implies_loop(toks, left) ==
    IF left.err \/ peek(toks, left) # ARROW THEN left
    ELSE LET right == parse_or(toks, consume(left))
         IN  IF right.err THEN right
             ELSE implies_loop(toks, MkBin("Implies", left.node, right))

parse_implies(toks, st) == implies_loop(toks, parse_or(toks, st))

iff_loop(toks, left) ==
    IF left.err \/ peek(toks, left) # DARROW THEN left
    ELSE LET right == parse_implies(toks, consume(left))
         IN  IF right.err THEN right
             ELSE iff_loop(toks, MkBin("Iff", left.node, right))

parse_iff(toks, st) == iff_loop(toks, parse_implies(toks, st))

\* Parser(tokens).parse()
Parse(toks) == parse(toks, NewParser)

(***************************************************************************)
(* collect_subexpressions                                                  *)
(***************************************************************************)

\* Duplicate suppression by structural equality instead of identity
AlreadyCollected_ByValue(heap, e, coll) ==
    \E k \in 1..Len(coll) : Tree(heap, coll[k]) = Tree(heap, e)

\* any(expr is node for node in collected): identity, not equality
AlreadyCollected(heap, e, coll) == \E k \in 1..Len(coll) : coll[k] = e

RECURSIVE collect_subexpressions(_, _, _)
collect_subexpressions(heap, e, coll) ==
    IF AlreadyCollected(heap, e, coll) THEN coll
    ELSE IF heap[e].op = "Not"
      THEN Append(collect_subexpressions(heap, heap[e].operand, coll), e)
    ELSE IF heap[e].op \in BinOpClasses
      THEN Append(collect_subexpressions(heap, heap[e].right,
                      collect_subexpressions(heap, heap[e].left, coll)), e)
    ELSE coll

(***************************************************************************)
(* truth_table_multiple                                                    *)
(***************************************************************************)

\* The characters of identifiers in code-point order
CodeOrder ==
    <<"0", "1", "2", "3", "4", "5", "6", "7", "8", "9",
      "A", "B", "C", "D", "E", "F", "G", "H", "I", "J", "K", "L", "M",
      "N", "O", "P", "Q", "R", "S", "T", "U", "V", "W", "X", "Y", "Z", "_",
      "a", "b", "c", "d", "e", "f", "g", "h", "i", "j", "k", "l", "m",
      "n", "o", "p", "q", "r", "s", "t", "u", "v", "w", "x", "y", "z">>

Ord(c) == CHOOSE k \in 1..Len(CodeOrder) : CodeOrder[k] = c

\* a < b on Python strings: lexicographic by code point
RECURSIVE StrLess(_, _)
StrLess(a, b) ==
    IF b = <<>> THEN FALSE
    ELSE IF a = <<>> THEN TRUE
    ELSE IF Head(a) = Head(b) THEN StrLess(Tail(a), Tail(b))
    ELSE Ord(Head(a)) < Ord(Head(b))

\* sorted(a set of strings)
RECURSIVE sorted(_)
sorted(S) ==
    IF S = {} THEN <<>>
    ELSE LET m == CHOOSE x \in S : \A y \in S \ {x} : StrLess(x, y)
         IN  <<m>> \o sorted(S \ {m})

\* The pool in the other order
BoolPool_TrueFirst == <<TRUE, FALSE>>

\* The pool [False, True] of itertools.product
BoolPool == <<FALSE, TRUE>>

\* itertools.product(pool, repeat=n):
\* result = [[]]; for each pool: result = [x + [y] for x in result for y in pool]
RECURSIVE product(_, _)
product(pool, n) ==
    IF n = 0 THEN << <<>> >>
    ELSE LET prev == product(pool, n - 1)
         IN  [k \in 1..(Len(prev) * Len(pool)) |->
                Append(prev[((k - 1) \div Len(pool)) + 1],
                       pool[((k - 1) % Len(pool)) + 1])]

\* "T" if val else "F"
Cell(val) == IF val THEN "T" ELSE "F"

\* set().union(*(e.vars() for e in exprs))
AllVars(es) == UNION {exprvars(es[k]) : k \in 1..Len(es)}

\* The body of the loop over itertools.product: env, then the row's cells
\* (variable columns, premise columns, the all-premises-true column)
TableRow(variables, es, values) ==
    LET env == [v \in {variables[k] : k \in 1..Len(variables)} |->
                  values[CHOOSE k \in 1..Len(variables) : variables[k] = v]]
        premise_vals == [k \in 1..Len(es) |-> evaluate(es[k], env)]
    IN  [env |-> env,
         row |-> [k \in 1..Len(variables) |-> Cell(env[variables[k]])]
                 \o [k \in 1..Len(es) |-> Cell(premise_vals[k])]
                 \o <<Cell(\A k \in 1..Len(es) : premise_vals[k])>>]

\* The printed table before centring and joining: headers and rows
truth_table_multiple(es) ==
    LET variables == sorted(AllVars(es))
        prod == product(BoolPool, Len(variables))
    IN  [headers |-> variables \o [k \in 1..Len(es) |-> str(es[k])]
                               \o << <<"A", "L", "L", " ", "T", "R", "U", "E">> >>,
         rows |-> [k \in 1..Len(prod) |-> TableRow(variables, es, prod[k])]]

(***************************************************************************)
(* Inputs                                                                  *)
(***************************************************************************)

MaxPieces == 5
MaxChars == 4
MaxTokens == 4
MaxOps == 2
MaxPremises == 2

SeqsUpTo(S, n) == UNION {[1..k -> S] : k \in 0..n}

RECURSIVE Flatten(_)
Flatten(ss) == IF ss = <<>> THEN <<>> ELSE Head(ss) \o Flatten(Tail(ss))

\* Statements for split_premises: concatenations of these pieces
SplitPieces ==
    {<<"p">>, <<",">>, <<" ">>, <<"(">>, <<")">>, TURNSTILE, THEREFORE}

SplitExamples ==
    { <<"p", ",", " ", "q", ",", " ">> \o THEREFORE \o <<" ", "r">>,
      <<"p", " ", "&", " ", "(", "q", ",", " ", "r", ")", " ">>
          \o THEREFORE \o <<" ", "s">>,
      <<"p", " ", "|", " ", "q", ",", " ", "(", "p", " ">> \o TURNSTILE
          \o <<" ", "q", ")", ",", " ", "r", " ">> \o TURNSTILE \o <<" ", "s">>,
      <<"(", "p", ",", " ", "q", ")", ",", " ", "r", ",", " ">> }

SplitInputs ==
    {Flatten(ps) : ps \in SeqsUpTo(SplitPieces, MaxPieces)} \cup SplitExamples

\* Formula texts for tokenize
TokChars == {"p", "1", "_", " ", "&", "(", "-", ">", "<"}

TokExamples ==
    { <<"p", " ", "<", "-", ">", " ", "q">>,
      <<"(", "p", " ", "&", " ", "q", ")", " ", "|", " ", "~", "p">>,
      <<"p", "1", "-", ">", "_", "q", " ", "<", "-", " ", ">", "1", "p">>,
      <<"\t", "a", "_", "1", "\n", "|", ")", "~", "B", "2">> }

TokInputs == SeqsUpTo(TokChars, MaxChars) \cup TokExamples

\* Token sequences for the parser
Names == {<<"p">>, <<"p", "1">>, <<"q">>}

TokenAlphabet ==
    {<<"p">>, <<"q">>, TILDE, AMP, BAR, ARROW, DARROW, LPAREN, RPAREN}

\* The tokens of "(p & q) | ~p", "(p & q) | (p & q)" and "~(p | ~q) -> (q"
TokenExamples ==
    { <<LPAREN, <<"p">>, AMP, <<"q">>, RPAREN, BAR, TILDE, <<"p">> >>,
      <<LPAREN, <<"p">>, AMP, <<"q">>, RPAREN, BAR,
        LPAREN, <<"p">>, AMP, <<"q">>, RPAREN>>,
      <<TILDE, LPAREN, <<"p">>, BAR, TILDE, <<"q">>, RPAREN, ARROW,
        LPAREN, <<"q">> >> }

TokenSeqs == SeqsUpTo(TokenAlphabet, MaxTokens) \cup TokenExamples

\* Expression values with exactly k operator nodes over Names
RECURSIVE ExprsOfSize(_)
ExprsOfSize(k) ==
    IF k = 0 THEN {Var(v) : v \in Names}
    ELSE {Not(e) : e \in ExprsOfSize(k - 1)}
         \cup UNION {{BinOp(c, l, r) : c \in BinOpClasses,
                         l \in ExprsOfSize(i), r \in ExprsOfSize(k - 1 - i)}
                     : i \in 0..(k - 1)}

P == Var(<<"p">>)
Q == Var(<<"q">>)

ExprExamples ==
    { BinOp("Or", BinOp("And", P, Q), Not(P)),
      BinOp("Or", BinOp("And", Not(P), Q), P),
      BinOp("Or", BinOp("And", P, Q), BinOp("And", P, Q)),
      BinOp("Iff", BinOp("Implies", Not(Not(P)), Q), BinOp("Or", P, Q)) }

Exprs == UNION {ExprsOfSize(k) : k \in 0..MaxOps} \cup ExprExamples

\* Premise lists for the truth table
PremisePool == ExprsOfSize(0) \cup {Not(e) : e \in ExprsOfSize(0)}
    \cup {BinOp(c, l, r) : c \in BinOpClasses, l \in ExprsOfSize(0), r \in ExprsOfSize(0)}

TableInputs ==
    {<<e>> : e \in Exprs} \cup SeqsUpTo(PremisePool, MaxPremises)

(***************************************************************************)
(* The state machine                                                       *)
(***************************************************************************)

NoSplit == ReturnList(<<>>)
NoTable == [headers |-> <<>>, rows |-> <<>>]

\* split = split_premises(statement)
SplitPremises ==
    /\ pc = "statement"
    /\ split' = split_premises(statement)
    /\ pc' = "split"
    /\ UNCHANGED <<statement, tokens, parser, expr, collected, exprs, table>>

\* str(expr)
Render ==
    /\ pc = "expr"
    /\ statement' = str(expr)
    /\ pc' = "statement"
    /\ UNCHANGED <<split, tokens, parser, expr, collected, exprs, table>>

\* tokens = tokenize(p)
Tokenize ==
    /\ pc = "statement"
    /\ tokens' = tokenize(statement)
    /\ pc' = "tokens"
    /\ UNCHANGED <<statement, split, parser, expr, collected, exprs, table>>

\* Parser(tokens).parse(); a raised ValueError ends the run
ParseTokens ==
    /\ pc = "tokens"
    /\ parser' = Parse(tokens)
    /\ pc' = IF parser'.err THEN "raised" ELSE "parsed"
    /\ UNCHANGED <<statement, split, tokens, expr, collected, exprs, table>>

\* collect_subexpressions(root)
Collect ==
    /\ pc = "parsed"
    /\ collected' = collect_subexpressions(parser.heap, parser.node, <<>>)
    /\ pc' = "collected"
    /\ UNCHANGED <<statement, split, tokens, parser, expr, exprs, table>>

\* truth_table_multiple(exprs)
TruthTable ==
    /\ pc = "exprs"
    /\ table' = truth_table_multiple(exprs)
    /\ pc' = "table"
    /\ UNCHANGED <<statement, split, tokens, parser, expr, collected, exprs>>

\* The premise splitter on statements
InitSplit ==
    /\ pc = "statement"
    /\ statement \in SplitInputs
    /\ split = NoSplit /\ tokens = <<>> /\ parser = NewParser
    /\ expr = Var(None) /\ collected = <<>> /\ exprs = <<>> /\ table = NoTable

NextSplit == SplitPremises

SpecSplit == InitSplit /\ [][NextSplit]_vars

\* The tokenizer on formula texts, then the parser
InitTok ==
    /\ pc = "statement"
    /\ statement \in TokInputs
    /\ split = NoSplit /\ tokens = <<>> /\ parser = NewParser
    /\ expr = Var(None) /\ collected = <<>> /\ exprs = <<>> /\ table = NoTable

NextTok == Tokenize \/ ParseTokens

SpecTok == InitTok /\ [][NextTok]_vars

\* The parser and the collector on token sequences
InitParse ==
    /\ pc = "tokens"
    /\ tokens \in TokenSeqs
    /\ statement = <<>> /\ split = NoSplit /\ parser = NewParser
    /\ expr = Var(None) /\ collected = <<>> /\ exprs = <<>> /\ table = NoTable

NextParse == ParseTokens \/ Collect

SpecParse == InitParse /\ [][NextParse]_vars

\* The token sequence the grammar derives for an expression value.  The
\* rules are numbered 1 iff, 2 implies, 3 or, 4 and, 5 not, 6 atom.
\* DeriveOwn(e) applies the rule of e's own operator: a binary rule takes
\* its left operand from the same rule (the repetition) and its right
\* operand from the next.  Derive(e, rule) goes through
\* atom := "(" iff ")" where e's rule lies below the one asked for, and,
\* with wrap, everywhere.
RuleOf(e) ==
    CASE e.op = "Iff"     -> 1
      [] e.op = "Implies" -> 2
      [] e.op = "Or"      -> 3
      [] e.op = "And"     -> 4
      [] e.op = "Not"     -> 5
      [] e.op = "Var"     -> 6

RECURSIVE Derive(_, _, _), DeriveOwn(_, _)
Derive(e, rule, wrap) ==
    IF wrap \/ RuleOf(e) < rule
      THEN <<LPAREN>> \o DeriveOwn(e, wrap) \o <<RPAREN>>
      ELSE DeriveOwn(e, wrap)

DeriveOwn(e, wrap) ==
    IF e.op = "Var" THEN <<e.name>>
    ELSE IF e.op = "Not" THEN <<TILDE>> \o Derive(e.operand, RuleOf(e), wrap)
    ELSE Derive(e.left, RuleOf(e), wrap) \o <<OpText(e.op)>>
           \o Derive(e.right, RuleOf(e) + 1, wrap)

\* The parser on the token sequences the grammar derives
InitGrammar ==
    /\ pc = "tokens"
    /\ expr \in Exprs
    /\ \E wrap \in BOOLEAN : tokens = Derive(expr, 1, wrap)
    /\ statement = <<>> /\ split = NoSplit /\ parser = NewParser
    /\ collected = <<>> /\ exprs = <<>> /\ table = NoTable

NextGrammar == ParseTokens

SpecGrammar == InitGrammar /\ [][NextGrammar]_vars

\* Rendering an expression, tokenizing the text and parsing it again
InitRender ==
    /\ pc = "expr"
    /\ expr \in Exprs
    /\ statement = <<>> /\ split = NoSplit /\ tokens = <<>> /\ parser = NewParser
    /\ collected = <<>> /\ exprs = <<>> /\ table = NoTable

NextRender == Render \/ Tokenize \/ ParseTokens

SpecRender == InitRender /\ [][NextRender]_vars

\* The truth table of premise lists
InitTable ==
    /\ pc = "exprs"
    /\ exprs \in TableInputs
    /\ statement = <<>> /\ split = NoSplit /\ tokens = <<>> /\ parser = NewParser
    /\ expr = Var(None) /\ collected = <<>> /\ table = NoTable

NextTable == TruthTable

SpecTable == InitTable /\ [][NextTable]_vars

(***************************************************************************)
(* Properties of split_premises                                            *)
(***************************************************************************)

SplitDone == pc = "split"

\* Nesting depth at index i: '(' minus ')' among the first i characters
NestDepth(s, i) ==
    Cardinality({k \in 1..i : s[k] = "("}) - Cardinality({k \in 1..i : s[k] = ")"})

\* Indices where 'therefore' or '|-' starts at nesting depth zero
ZeroSeps(s) ==
    {i \in 0..(Len(s) - 1) :
        /\ NestDepth(s, i) = 0
        /\ startswith(s, THEREFORE, i) \/ startswith(s, TURNSTILE, i)}

SetMin(S) == CHOOSE x \in S : \A y \in S : x <= y

\* Where premise collection ends: the first depth-zero separator, or the end
PremisesEnd(s) == IF ZeroSeps(s) = {} THEN Len(s) ELSE SetMin(ZeroSeps(s))

\* Indices of the depth-zero commas before that point
ZeroCommas(s) ==
    {i \in 0..(PremisesEnd(s) - 1) : s[i + 1] = "," /\ NestDepth(s, i) = 0}

\* The text after the first depth-zero separator
AfterFirstSep(s) ==
    LET i == PremisesEnd(s)
    IN  Slice(s, i + (IF startswith(s, THEREFORE, i) THEN Len(THEREFORE)
                                                       ELSE Len(TURNSTILE)), Len(s))

\* The trimmed segments between the cuts, in order
RECURSIVE SegmentsFrom(_, _, _)
SegmentsFrom(s, from, cuts) ==
    IF cuts = {} THEN <<strip(Slice(s, from, PremisesEnd(s)))>>
    ELSE LET c == SetMin(cuts)
         IN  <<strip(Slice(s, from, c))>> \o SegmentsFrom(s, c + 1, cuts \ {c})

NonEmpty(ss) == SelectSeq(ss, LAMBDA x : x # <<>>)

Str_p == <<"p">>
Str_q == <<"q">>
Str_r == <<"r">>
Str_s == <<"s">>

\* "p, q, therefore r"
Stmt_pq_therefore_r == <<"p", ",", " ", "q", ",", " ">> \o THEREFORE \o <<" ", "r">>

\* "p & (q, r) therefore s"
Stmt_paren_comma ==
    <<"p", " ", "&", " ", "(", "q", ",", " ", "r", ")", " ">> \o THEREFORE \o <<" ", "s">>

\* C1: the segment after the last depth-zero comma is never emitted as an
\* empty premise, at end of input or at a depth-zero separator; and
\* "p, q, therefore r" gives premises ["p", "q"] and conclusion "r".
C1_NoEmptyLastPremise ==
    SplitDone =>
      LET c == Cardinality(ZeroCommas(statement))
      IN  /\ (c >= 1 /\ Len(split.parts) = c + 1) => split.parts[c + 1] # <<>>
          /\ statement = Stmt_pq_therefore_r =>
               split = ReturnTuple(<<Str_p, Str_q>>, Str_r)

\* C4: premises are cut only at depth-zero commas before the first
\* depth-zero 'therefore' / '|-'; a conclusion is returned exactly when such
\* a separator exists and is the trimmed text after the first one; and
\* "p & (q, r) therefore s" gives the one premise "p & (q, r)" and "s".
C4_SplitsOnlyAtDepthZero ==
    SplitDone =>
      /\ split.tuple <=> ZeroSeps(statement) # {}
      /\ split.tuple => split.conclusion = strip(AfterFirstSep(statement))
      /\ ~ split.tuple => split.conclusion = None
      /\ NonEmpty(split.parts)
           = NonEmpty(SegmentsFrom(statement, 0, ZeroCommas(statement)))
      /\ Len(split.parts) <= Cardinality(ZeroCommas(statement)) + 1
      /\ statement = Stmt_paren_comma =>
           split = ReturnTuple(
                     << <<"p", " ", "&", " ", "(", "q", ",", " ", "r", ")">> >>, Str_s)

\* "p | q, (p |- q), r |- s"
Stmt_nested_sep ==
    <<"p", " ", "|", " ", "q", ",", " ", "(", "p", " ">> \o TURNSTILE
        \o <<" ", "q", ")", ",", " ", "r", " ">> \o TURNSTILE \o <<" ", "s">>

\* A '|-' inside parentheses was passed over, the depth-zero commas cut,
\* and the later depth-zero '|-' ended the premises
C4_Witness ==
    /\ SplitDone
    /\ statement = Stmt_nested_sep
    /\ split = ReturnTuple(<< <<"p", " ", "|", " ", "q">>,
                              <<"(", "p", " ">> \o TURNSTILE \o <<" ", "q", ")">>,
                              Str_r >>, Str_s)

(***************************************************************************)
(* Properties of tokenize                                                  *)
(***************************************************************************)

\* The token language: an operator symbol or [A-Za-z][A-Za-z0-9_]*
IsTokenText(w) ==
    \/ w \in {TILDE, AMP, BAR, ARROW, DARROW, LPAREN, RPAREN}
    \/ /\ w # <<>>
       /\ IsAlpha(w[1])
       /\ \A k \in 2..Len(w) : IsWord(w[k])

\* The length of the longest token text starting at index i, 0 when none
LongestAt(s, i) ==
    LET lens == {n \in 1..(Len(s) - i) : IsTokenText(Slice(s, i, i + n))}
    IN  IF lens = {} THEN 0 ELSE CHOOSE n \in lens : \A m \in lens : m <= n

\* Longest-match scanning that drops every character starting no token
RECURSIVE LongestMatchTokens(_, _)
LongestMatchTokens(s, i) ==
    IF i >= Len(s) THEN <<>>
    ELSE LET n == LongestAt(s, i)
         IN  IF n = 0 THEN LongestMatchTokens(s, i + 1)
             ELSE <<Slice(s, i, i + n)>> \o LongestMatchTokens(s, i + n)

\* C10: tokenize returns, in input order, exactly the longest-match tokens
\* of the text; whitespace and characters that start no token are dropped
\* and the tokens around them are unchanged.
C10_LongestMatchTokens ==
    pc # "statement" =>
      /\ tokens = LongestMatchTokens(statement, 0)
      /\ \A k \in 1..Len(tokens) : IsTokenText(tokens[k])

\* "p1->_q <- >1p": '_', '<', '-', '>', '1' and the blanks are dropped
C10_Witness ==
    /\ pc = "tokens"
    /\ statement = <<"p", "1", "-", ">", "_", "q", " ", "<", "-", " ", ">", "1", "p">>
    /\ tokens = << <<"p", "1">>, ARROW, Str_q, Str_p >>

(***************************************************************************)
(* Properties of Parser: errors                                            *)
(***************************************************************************)

ParseDone == pc \in {"parsed", "raised", "collected"}

\* C2: whenever the parser runs past the end of the tokens while an operand
\* is expected (the empty sequence, or one ending after a binary operator,
\* '~' or '('), parse raises instead of returning an AST.
C2_PastEndRaises ==
    ParseDone => (parser.pos > Len(tokens) => parser.err)

\* The tokens of "p & (q"
Toks_unbalanced == <<Str_p, AMP, LPAREN, Str_q>>

\* The number of tokens of toks[a..b] equal to tok
CountTok(toks, a, b, tok) == Cardinality({k \in a..b : toks[k] = tok})

\* C3: when a '(' has been consumed and the token after the enclosed
\* expression is not ')' (another token, or the end of input), parse raises
\* and returns no AST; so a returned AST never leaves a consumed '('
\* without a ')' after it, and the tokens of "p & (q" fail.
C3_UnclosedParenRaises ==
    ParseDone =>
      /\ \A k \in 1..Len(tokens) :
           (tokens[k] = LPAREN /\ k <= parser.pos) =>
             LET enclosed == parse(tokens, [NewParser EXCEPT !.pos = k])
             IN  (~ enclosed.err /\ peek(tokens, enclosed) # RPAREN)
                   => (parser.err /\ parser.node = 0)
      /\ ~ parser.err =>
           LET n == IF parser.pos < Len(tokens) THEN parser.pos ELSE Len(tokens)
           IN  \A k \in 1..n :
                 tokens[k] = LPAREN =>
                   CountTok(tokens, k, n, LPAREN) <= CountTok(tokens, k, n, RPAREN)
      /\ tokens = Toks_unbalanced => parser.err

C3_Witness ==
    /\ pc = "raised"
    /\ tokens = Toks_unbalanced
    /\ parser.err

(***************************************************************************)
(* Properties of Parser: the grammar, and rendering                        *)
(***************************************************************************)

Parsed == pc = "parsed"

\* The value of the object parse returned
ParsedTree == Tree(parser.heap, parser.node)

Implies_pq == BinOp("Implies", P, Q)

\* C5: for a token sequence the grammar derives, parse returns the AST of
\* the derivation: '~' binds tighter than '&', then '|', '->', '<->'; a
\* chain of one operator nests to the left; '~~p' is Not(Not(p)); a
\* parenthesised sub-expression is parsed from the top rule.
C5_ParsesGrammar ==
    /\ pc # "raised"
    /\ Parsed =>
         /\ ParsedTree = expr
         /\ parser.pos = Len(tokens)
         /\ tokens = <<Str_p, ARROW, Str_q, ARROW, Str_p>> =>
              ParsedTree = BinOp("Implies", Implies_pq, P)
         /\ tokens = <<TILDE, TILDE, Str_p>> => ParsedTree = Not(Not(P))
         /\ tokens = <<LPAREN, Str_p, ARROW, Str_q, RPAREN, AMP, Str_q>> =>
              ParsedTree = BinOp("And", Implies_pq, Q)
         /\ tokens = <<TILDE, Str_p, AMP, Str_q, BAR, Str_p>> =>
              ParsedTree = BinOp("Or", BinOp("And", Not(P), Q), P)

\* '(p -> q) & q' was parsed to And(Implies(p, q), q)
C5_Witness ==
    /\ pc = "parsed"
    /\ tokens = <<LPAREN, Str_p, ARROW, Str_q, RPAREN, AMP, Str_q>>
    /\ ParsedTree = BinOp("And", Implies_pq, Q)

\* C6: parsing the tokens of str(e) gives back e, so rendering the result
\* again gives the same text.
C6_RenderParseFixedPoint ==
    /\ pc # "raised"
    /\ Parsed =>
         /\ ParsedTree = expr
         /\ str(ParsedTree) = statement
         /\ parser.pos = Len(tokens)

Expr_nested ==
    BinOp("Iff", BinOp("Implies", Not(Not(P)), Q), BinOp("Or", P, Q))

\* "((~~p -> q) <-> (p | q))" was rendered, tokenized and parsed back
C6_Witness ==
    /\ pc = "parsed"
    /\ expr = Expr_nested
    /\ Len(statement) = 24
    /\ ParsedTree = Expr_nested

(***************************************************************************)
(* Properties of collect_subexpressions                                    *)
(***************************************************************************)

\* The objects of the tree rooted at id, the root included
RECURSIVE Nodes(_, _)
Nodes(heap, id) ==
    {id} \cup (IF heap[id].op = "Var" THEN {}
               ELSE IF heap[id].op = "Not" THEN Nodes(heap, heap[id].operand)
               ELSE Nodes(heap, heap[id].left) \cup Nodes(heap, heap[id].right))

\* The index of object id in the collected list
IndexOf(id) == CHOOSE k \in 1..Len(collected) : collected[k] = id

Inner(heap, id) == {n \in Nodes(heap, id) : heap[n].op # "Var"}

Expr_or_and_not == BinOp("Or", BinOp("And", P, Q), Not(P))

Expr_twice == BinOp("Or", BinOp("And", P, Q), BinOp("And", P, Q))

\* C9: the collected list holds every Not / binary object of the parsed tree
\* once and no Var, each object after all of its descendants, the left
\* subtree before the right; equal sub-trees built separately both appear;
\* '(p & q) | ~p' gives [And(p,q), Not(p), Or(And(p,q), Not(p))].
C9_PostOrderOnce ==
    pc = "collected" =>
      LET heap == parser.heap
          inner == Inner(heap, parser.node)
      IN  /\ {collected[k] : k \in 1..Len(collected)} = inner
          /\ Len(collected) = Cardinality(inner)
          /\ \A n \in inner : \A d \in Inner(heap, n) \ {n} : IndexOf(d) < IndexOf(n)
          /\ \A n \in inner :
               heap[n].op \in BinOpClasses =>
                 \A l \in Inner(heap, heap[n].left) :
                   \A r \in Inner(heap, heap[n].right) : IndexOf(l) < IndexOf(r)
          /\ ParsedTree = Expr_or_and_not =>
               [k \in 1..Len(collected) |-> Tree(heap, collected[k])]
                 = <<BinOp("And", P, Q), Not(P), Expr_or_and_not>>
          /\ ParsedTree = Expr_twice =>
               [k \in 1..Len(collected) |-> Tree(heap, collected[k])]
                 = <<BinOp("And", P, Q), BinOp("And", P, Q), Expr_twice>>

\* '(p & q) | (p & q)': two distinct objects with the same value, both listed
C9_Witness ==
    /\ pc = "collected"
    /\ ParsedTree = Expr_twice
    /\ Len(collected) = 3
    /\ collected[1] # collected[2]
    /\ Tree(parser.heap, collected[1]) = Tree(parser.heap, collected[2])

(***************************************************************************)
(* Properties of truth_table_multiple and evaluate                         *)
(***************************************************************************)

TableDone == pc = "table"

RECURSIVE Pow2(_)
Pow2(n) == IF n = 0 THEN 1 ELSE 2 * Pow2(n - 1)

\* Bit b (0 the least significant) of k
Bit(k, b) == (k \div Pow2(b)) % 2 = 1

\* The number of names of V alphabetically before v
Rank(V, v) == Cardinality({w \in V : StrLess(w, v)})

\* The cells of column c over the rows, top to bottom
Column(c) == [i \in 1..Len(table.rows) |-> table.rows[i].row[c]]

\* C7: 2^n rows for the n variables of the union of the premises' variable
\* sets (one row when n = 0), each a distinct assignment of exactly those
\* variables, in binary counting order with False = 0, True = 1 and the
\* alphabetically first variable the most significant bit.
C7_RowsCountInBinary ==
    TableDone =>
      LET V == AllVars(exprs)
          n == Cardinality(V)
          rows == table.rows
      IN  /\ Len(rows) = Pow2(n)
          /\ \A i \in 1..Len(rows) : DOMAIN rows[i].env = V
          /\ \A i, j \in 1..Len(rows) : i # j => rows[i].env # rows[j].env
          /\ \A i \in 1..Len(rows) : \A v \in V :
               /\ rows[i].env[v] = Bit(i - 1, n - 1 - Rank(V, v))
               /\ rows[i].row[Rank(V, v) + 1] = Cell(rows[i].env[v])
          /\ V = {Str_p, Str_q} =>
               /\ Column(1) = <<"F", "F", "T", "T">>
               /\ Column(2) = <<"F", "T", "F", "T">>

\* Two premises over p, p1 and q: eight rows, the last column of variables
\* alternating
C7_Witness ==
    /\ TableDone
    /\ exprs = <<BinOp("Or", Var(<<"p", "1">>), Q), Not(P)>>
    /\ Len(table.rows) = 8
    /\ Column(3) = <<"F", "T", "F", "T", "F", "T", "F", "T">>

\* The truth-functional value of an expression under an assignment
RECURSIVE Holds(_, _)
Holds(e, env) ==
    CASE e.op = "Var"     -> env[e.name]
      [] e.op = "Not"     -> ~ Holds(e.operand, env)
      [] e.op = "And"     -> Holds(e.left, env) /\ Holds(e.right, env)
      [] e.op = "Or"      -> Holds(e.left, env) \/ Holds(e.right, env)
      [] e.op = "Implies" -> ~ (Holds(e.left, env) /\ ~ Holds(e.right, env))
      [] e.op = "Iff"     -> Holds(e.left, env) <=> Holds(e.right, env)

\* C8: every premise cell is the truth-functional value of the premise under
\* the row's assignment; Not(Not(e)) has the column of e; over
\* (F,F),(F,T),(T,F),(T,T) 'p -> q' is T,T,F,T and 'p <-> q' is T,F,F,T.
C8_EvaluateTruthFunctional ==
    TableDone =>
      LET n == Cardinality(AllVars(exprs))
          rows == table.rows
      IN  /\ \A i \in 1..Len(rows) : \A k \in 1..Len(exprs) :
               /\ rows[i].row[n + k] = Cell(Holds(exprs[k], rows[i].env))
               /\ exprs[k].op = "Not" /\ exprs[k].operand.op = "Not" =>
                    evaluate(exprs[k], rows[i].env)
                      = evaluate(exprs[k].operand.operand, rows[i].env)
          /\ exprs = <<Implies_pq>> => Column(3) = <<"T", "T", "F", "T">>
          /\ exprs = <<BinOp("Iff", P, Q)>> => Column(3) = <<"T", "F", "F", "T">>

\* The table of 'p -> q'
C8_Witness ==
    /\ TableDone
    /\ exprs = <<Implies_pq>>
    /\ Column(3) = <<"T", "T", "F", "T">>

====
